---- MODULE Spec2Model ----
(***************************************************************************)
(* A model of src/schelling.py: the class SchellingModel (constructor,     *)
(* input validation, grid initialisation by rejection sampling, the run    *)
(* loop, one simulation step, neighbour analysis and the segregation       *)
(* metric).                                                                *)
(*                                                                         *)
(* Floats (share_a, stay_threshold, neighbour relations, segregation       *)
(* shares) are exact rationals <<numerator, denominator>> with a positive  *)
(* denominator; they are compared by cross-multiplication.  The random     *)
(* source is a nondeterministic choice of a cell for every draw; a rejected  *)
(* draw leaves the state as it is.                                         *)
(***************************************************************************)
EXTENDS Integers, Sequences, FiniteSets, TLC

\* ------------------------------------------------------------------ bounds
MaxAgents == 4
MaxSteps == 2
MaxGrid == 5

\* ------------------------------------------------------------ rationals
RatLess_OrEqual(p, q) == p[1] * q[2] <= q[1] * p[2]
RatLess(p, q) == p[1] * q[2] < q[1] * p[2]
RatLeq(p, q) == p[1] * q[2] <= q[1] * p[2]
RatEq(p, q) == p[1] * q[2] = q[1] * p[2]

Zero == <<0, 1>>
One == <<1, 1>>

\* the values a caller passes: grid_size, share_a, stay_threshold, print_every
GridSizes == {<<1, 2>>, <<2, 1>>, <<2, 2>>, <<3, 2>>}
ShareValues == {<<-1, 2>>, <<0, 1>>, <<1, 1>>, <<3, 2>>}
ThresholdValues == {<<-1, 2>>, <<0, 1>>, <<1, 2>>, <<1, 1>>, <<2, 1>>}
PrintEveryValues == {-1, 0, 1, 2}
RelationGridSizes == {<<2, 2>>, <<3, 2>>, <<2, 3>>, <<3, 3>>}
CellValues == {"A", "B", "None"}

\* ------------------------------------------------------------------ state
VARIABLES
    x_size, y_size, n_agents, share_a, stay_threshold,  \* the configuration
    grid,                  \* grid[x][y] in {"A", "B", "None"}, or NoGrid
    segregation_shares,    \* the history of get_segregation() values
    steps_run,             \* the step counter
    pc,                    \* where the program is
    placed,                \* the loop index i, then j, of __initialize_grid
    chosen_agent,          \* the agent __run_one_step selected
    equals,                \* its neighbour relation, as __run_one_step got it
    steps,                 \* iterations of run's loop still to do
    print_at_end, print_every,   \* run's other arguments
    rendered,              \* what the last action of run printed
    raised                 \* the exception the last call ended with

config == <<x_size, y_size, n_agents, share_a, stay_threshold>>
locals == <<steps, print_at_end, print_every>>
vars == <<config, grid, segregation_shares, steps_run, pc, placed,
          chosen_agent, equals, locals, rendered, raised>>

NoGrid == <<>>
NoPos == <<>>
NoValue == <<>>

Xs == 0 .. (x_size - 1)
Ys == 0 .. (y_size - 1)
Cells == Xs \X Ys

Occupied(g) == {c \in Cells : g[c[1]][c[2]] # "None"}

\* ------------------------------------------------------- __check_inputs
\* the validation without its capacity assertion
check_inputs_no_capacity ==
    /\ x_size > 1 /\ y_size > 1
    /\ n_agents > 1
    /\ RatLeq(Zero, share_a) /\ RatLeq(share_a, One)
    /\ RatLeq(Zero, stay_threshold) /\ RatLeq(stay_threshold, One)

check_inputs_no_threshold_cap ==
    /\ x_size > 1 /\ y_size > 1
    /\ x_size * y_size > n_agents
    /\ n_agents > 1
    /\ RatLeq(Zero, share_a) /\ RatLeq(share_a, One)
    /\ RatLeq(Zero, stay_threshold)

check_inputs ==
    /\ x_size > 1 /\ y_size > 1
    /\ x_size * y_size > n_agents
    /\ n_agents > 1
    /\ RatLeq(Zero, share_a) /\ RatLeq(share_a, One)
    /\ RatLeq(Zero, stay_threshold) /\ RatLeq(stay_threshold, One)

\* ------------------------------------------------- neighbour analysis
get_neighbor_positions_with_self(position) ==
    LET block == [k \in 1 .. 9 |->
                    <<position[1] + ((k - 1) \div 3) - 1,
                      position[2] + ((k - 1) % 3) - 1>>]
        Exists(p) == /\ 0 <= p[1] /\ p[1] < x_size
                     /\ 0 <= p[2] /\ p[2] < y_size
    IN  SelectSeq(block, Exists)

get_neighbor_positions(position) ==
    LET block == [k \in 1 .. 9 |->
                    <<position[1] + ((k - 1) \div 3) - 1,
                      position[2] + ((k - 1) % 3) - 1>>]
        Exists(p) == /\ 0 <= p[1] /\ p[1] < x_size
                     /\ 0 <= p[2] /\ p[2] < y_size
                     /\ p # position
    IN  SelectSeq(block, Exists)

count_neighbors(g, position) ==
    LET neighbors == get_neighbor_positions(position)
        Count(t) == Cardinality({k \in 1 .. Len(neighbors) :
                                   g[neighbors[k][1]][neighbors[k][2]] = t})
    IN  <<Count("A"), Count("B")>>

get_neighbor_relation_as_share(g, position) ==
    LET counts == count_neighbors(g, position)
        a_count == counts[1]
        b_count == counts[2]
        cell == g[position[1]][position[2]]
    IN  IF cell = "A"
        THEN IF b_count = 0 THEN One ELSE <<a_count, a_count + b_count>>
        ELSE IF cell = "B"
        THEN IF a_count = 0 THEN One ELSE <<b_count, a_count + b_count>>
        ELSE One

get_neighbor_relation(g, position) ==
    LET counts == count_neighbors(g, position)
        a_count == counts[1]
        b_count == counts[2]
        cell == g[position[1]][position[2]]
    IN  IF cell = "A"
        THEN IF b_count = 0 THEN One ELSE <<a_count, b_count>>
        ELSE IF cell = "B"
        THEN IF a_count = 0 THEN One ELSE <<b_count, a_count>>
        ELSE One

\* ------------------------------------------------------ get_segregation
Staying(g) ==
    {c \in Cells : /\ g[c[1]][c[2]] # "None"
                   /\ RatLeq(stay_threshold, get_neighbor_relation(g, c))}

get_segregation_of_occupied(g) ==
    <<Cardinality(Staying(g)), Cardinality(Occupied(g))>>

get_segregation(g) == <<Cardinality(Staying(g)), n_agents>>

\* ------------------------------------------------------------------ Init
Init ==
    /\ \E grid_size \in GridSizes :
         /\ x_size = grid_size[1]
         /\ y_size = grid_size[2]
    /\ n_agents \in 1 .. MaxAgents
    /\ share_a \in ShareValues
    /\ stay_threshold \in ThresholdValues
    /\ grid = NoGrid
    /\ segregation_shares = <<>>
    /\ steps_run = 0
    /\ pc = "check_inputs"
    /\ placed = 0
    /\ chosen_agent = NoPos
    /\ equals = NoValue
    /\ steps = 0
    /\ print_at_end = TRUE
    /\ print_every = 0
    /\ rendered = "none"
    /\ raised = "none"

\* --------------------------------------------------------- construction
\* __init__ from the call of __check_inputs to the first placement loop
Construct ==
    /\ pc = "check_inputs"
    /\ IF check_inputs
       THEN /\ grid' = [x \in Xs |-> [y \in Ys |-> "None"]]
            /\ pc' = "place_A"
            /\ raised' = raised
       ELSE /\ grid' = grid
            /\ pc' = "failed"
            /\ raised' = "AssertionError"
    /\ UNCHANGED <<config, segregation_shares, steps_run, placed,
                   chosen_agent, equals, locals, rendered>>

\* __find_empty_cell draws an occupied cell and draws again
FindEmptyCellRetry ==
    /\ pc \in {"place_A", "place_B", "move"}
    /\ \E c \in Cells : grid[c[1]][c[2]] # "None"
    /\ UNCHANGED vars

ACount == n_agents \div 2
BCount_Remainder == n_agents - ACount
BCount == n_agents

Put(g, c, v) == [g EXCEPT ![c[1]][c[2]] = v]

\* one iteration of the first loop of __initialize_grid
PlaceA ==
    /\ pc = "place_A"
    /\ \E c \in Cells :
         /\ grid[c[1]][c[2]] = "None"
         /\ grid' = Put(grid, c, "A")
    /\ IF placed + 1 < ACount
       THEN placed' = placed + 1 /\ pc' = pc
       ELSE placed' = 0 /\ pc' = "place_B"
    /\ UNCHANGED <<config, segregation_shares, steps_run, chosen_agent,
                   equals, locals, rendered, raised>>

\* one iteration of the second loop of __initialize_grid
PlaceB ==
    /\ pc = "place_B"
    /\ \E c \in Cells :
         /\ grid[c[1]][c[2]] = "None"
         /\ grid' = Put(grid, c, "B")
    /\ IF placed + 1 < BCount
       THEN placed' = placed + 1 /\ pc' = pc
       ELSE placed' = 0 /\ pc' = "idle"
    /\ UNCHANGED <<config, segregation_shares, steps_run, chosen_agent,
                   equals, locals, rendered, raised>>

\* ------------------------------------------------------------------- run
\* Python's %: the result takes the sign of the divisor; a zero divisor raises
PyMod(a, b) == IF b > 0 THEN a % b ELSE 0 - ((0 - a) % (0 - b))

\* the call run(steps, print_at_end, print_every) on a constructed model
Run ==
    /\ pc = "idle"
    /\ \E s \in 0 .. (MaxSteps - steps_run), pae \in BOOLEAN,
          pe \in PrintEveryValues :
         /\ steps' = s
         /\ print_at_end' = pae
         /\ print_every' = pe
    /\ pc' = "run"
    /\ rendered' = "none"
    /\ raised' = "none"
    /\ UNCHANGED <<config, grid, segregation_shares, steps_run, placed,
                   chosen_agent, equals>>

\* __find_full_cell draws an empty cell and draws again
FindFullCellRetry ==
    /\ pc = "run"
    /\ steps > 0
    /\ \E c \in Cells : grid[c[1]][c[2]] = "None"
    /\ UNCHANGED vars

\* the loop body with the print check moved before the append
AfterStep_CheckBeforeAppend(g) ==
    /\ grid' = g
    /\ steps_run' = steps_run + 1
    /\ chosen_agent' = NoPos
    /\ equals' = NoValue
    /\ IF print_every = 0
       THEN /\ raised' = "ZeroDivisionError"
            /\ segregation_shares' = segregation_shares
            /\ rendered' = "none"
            /\ pc' = "idle"
            /\ steps' = 0
            /\ print_at_end' = TRUE
            /\ print_every' = 0
       ELSE /\ raised' = raised
            /\ segregation_shares' =
                  Append(segregation_shares, get_segregation(g))
            /\ rendered' = IF PyMod(steps_run + 1, print_every) = 0
                           THEN "periodic" ELSE "none"
            /\ pc' = "run"
            /\ steps' = steps - 1
            /\ UNCHANGED <<print_at_end, print_every>>
    /\ UNCHANGED <<config, placed>>

\* the rest of one iteration of run's loop, once __run_one_step left grid g
AfterStep(g) ==
    /\ grid' = g
    /\ steps_run' = steps_run + 1
    /\ segregation_shares' = Append(segregation_shares, get_segregation(g))
    /\ chosen_agent' = NoPos
    /\ equals' = NoValue
    /\ IF print_every = 0
       THEN /\ raised' = "ZeroDivisionError"
            /\ rendered' = "none"
            /\ pc' = "idle"
            /\ steps' = 0
            /\ print_at_end' = TRUE
            /\ print_every' = 0
       ELSE /\ raised' = raised
            /\ rendered' = IF PyMod(steps_run + 1, print_every) = 0
                           THEN "periodic" ELSE "none"
            /\ pc' = "run"
            /\ steps' = steps - 1
            /\ UNCHANGED <<print_at_end, print_every>>
    /\ UNCHANGED <<config, placed>>

\* __run_one_step: the selected agent is content and stays
StepStay ==
    /\ pc = "run"
    /\ steps > 0
    /\ \E c \in Cells :
         /\ grid[c[1]][c[2]] # "None"
         /\ ~RatLess(get_neighbor_relation(grid, c), stay_threshold)
    /\ AfterStep(grid)

\* __run_one_step: the selected agent wants to move and looks for a cell
StepChoose ==
    /\ pc = "run"
    /\ steps > 0
    /\ \E c \in Cells :
         /\ grid[c[1]][c[2]] # "None"
         /\ RatLess(get_neighbor_relation(grid, c), stay_threshold)
         /\ chosen_agent' = c
         /\ equals' = get_neighbor_relation(grid, c)
    /\ pc' = "move"
    /\ UNCHANGED <<config, grid, segregation_shares, steps_run, placed,
                   locals, rendered, raised>>

\* __run_one_step: the move to the empty cell __find_empty_cell returned
MoveAgent_KeepOrigin(g, from, to) == Put(g, to, g[from[1]][from[2]])

MoveAgent(g, from, to) == Put(Put(g, to, g[from[1]][from[2]]), from, "None")

StepMove_AnyCell ==
    /\ pc = "move"
    /\ \E c \in Cells :
         AfterStep(MoveAgent(grid, chosen_agent, c))

StepMove ==
    /\ pc = "move"
    /\ \E c \in Cells :
         /\ grid[c[1]][c[2]] = "None"
         /\ AfterStep(MoveAgent(grid, chosen_agent, c))

\* run's loop is over: the final print, and the return
RunReturn ==
    /\ pc = "run"
    /\ steps = 0
    /\ rendered' = IF print_at_end THEN "final" ELSE "none"
    /\ pc' = "idle"
    /\ print_at_end' = TRUE
    /\ print_every' = 0
    /\ UNCHANGED <<config, grid, segregation_shares, steps_run, placed,
                   chosen_agent, equals, steps, raised>>

Next ==
    \/ Construct
    \/ FindEmptyCellRetry
    \/ PlaceA
    \/ PlaceB
    \/ Run
    \/ FindFullCellRetry
    \/ StepStay
    \/ StepChoose
    \/ StepMove
    \/ RunReturn

Spec == Init /\ [][Next]_vars

\* A fair random source draws every cell again and again, so a search that
\* has a cell to find finds it; the interpreter runs the code that is ready.
\* Nothing obliges a caller to call run.
Progress ==
    \/ Construct
    \/ PlaceA
    \/ PlaceB
    \/ StepStay
    \/ StepChoose
    \/ StepMove
    \/ RunReturn

Fairness == WF_vars(Progress)

\* the liveness check explores the models on the 2 x 2 grid
SquareInit == Init /\ x_size = 2 /\ y_size = 2

FairSpec == SquareInit /\ [][Next]_vars /\ Fairness

\* ---------------------------------------------------------------- claims
Constructed == pc \in {"idle", "run", "move"}
InFindEmptyCell == pc \in {"place_A", "place_B", "move"}
InFindFullCell == pc = "run" /\ steps > 0
InUnitInterval(r) == RatLeq(Zero, r) /\ RatLeq(r, One)

\* C1: from the end of construction on, the number of non-empty cells is
\* n_agents.
C1_OccupiedIsNAgents ==
    Constructed => Cardinality(Occupied(grid)) = n_agents

\* C2: whenever __find_empty_cell runs the grid has an empty cell, and
\* whenever __find_full_cell runs the grid has an occupied cell.
C2_SearchHasATarget ==
    /\ InFindEmptyCell => \E c \in Cells : grid[c[1]][c[2]] = "None"
    /\ InFindFullCell => \E c \in Cells : grid[c[1]][c[2]] # "None"

\* C3: with a fair random source the construction of an accepted
\* configuration finishes, and every call run(steps) with print_every >= 1
\* returns without an error, steps_run increased by exactly steps.
C3_ConstructionAndRunTerminate ==
    /\ (pc = "place_A" \/ (pc = "run" /\ print_every >= 1))
          ~> (pc = "idle" /\ raised = "none")
    /\ [][/\ (pc = "run" /\ print_every >= 1 /\ pc' = "idle") => steps = 0
          /\ (pc \in {"run", "move"} /\ print_every >= 1)
                => steps_run' + steps' = steps_run + steps]_vars

\* C4: get_segregation() is in [0,1] in every state of a constructed model,
\* and so is every recorded segregation share.
C4_SegregationInUnitInterval ==
    Constructed =>
        /\ InUnitInterval(get_segregation(grid))
        /\ \A i \in 1 .. Len(segregation_shares) :
             InUnitInterval(segregation_shares[i])

\* C5: with stay_threshold = 0.0 get_segregation() is 1.0 after any number
\* of steps, and every recorded share is 1.0.
C5_ZeroThresholdSharesAreOne ==
    (Constructed /\ RatEq(stay_threshold, Zero)) =>
        /\ RatEq(get_segregation(grid), One)
        /\ \A i \in 1 .. Len(segregation_shares) :
             RatEq(segregation_shares[i], One)

\* C6: construction fails exactly when x_size <= 1, y_size <= 1,
\* n_agents >= x_size*y_size, n_agents <= 1, or share_a or stay_threshold is
\* outside [0,1]; a failed construction has built no grid and placed no agent.
InvalidConfiguration ==
    \/ x_size <= 1
    \/ y_size <= 1
    \/ n_agents >= x_size * y_size
    \/ n_agents <= 1
    \/ ~InUnitInterval(share_a)
    \/ ~InUnitInterval(stay_threshold)

C6_FailsIffInvalid ==
    /\ pc # "check_inputs" => (pc = "failed" <=> InvalidConfiguration)
    /\ pc = "failed" =>
         /\ grid = NoGrid
         /\ raised = "AssertionError"
         /\ placed = 0
         /\ steps_run = 0
         /\ segregation_shares = <<>>
    /\ pc \notin {"check_inputs", "failed"} => grid # NoGrid

\* a construction that failed on the capacity check alone
C6_Witness ==
    /\ pc = "failed"
    /\ x_size > 1 /\ y_size > 1 /\ n_agents > 1
    /\ n_agents >= x_size * y_size
    /\ InUnitInterval(share_a) /\ InUnitInterval(stay_threshold)

\* C7: run with print_every = 0 raises no arithmetic fault, renders nothing
\* periodically and does all its iterations.
C7_PrintEveryZeroNeverPrints ==
    [][(pc \in {"run", "move"} /\ print_every = 0) =>
          /\ raised' = "none"
          /\ rendered' # "periodic"
          /\ pc' = "idle" => steps = 0]_vars

\* C8: after a step the grid is rendered iff print_every > 0 and
\* steps_run mod print_every = 0.
C8_RenderIffPositiveMultiple ==
    [][steps_run' = steps_run + 1 =>
          (rendered' = "periodic" <=>
              (print_every > 0 /\ steps_run' % print_every = 0))]_vars

\* C9: len(segregation_shares) = steps_run between steps and after every run
\* call, also one that ended with an error; steps_run starts at 0 and grows
\* by exactly 1 per completed step; recorded shares are never changed or
\* removed.
C9_HistoryMatchesStepCounter ==
    /\ steps_run = 0
    /\ segregation_shares = <<>>
    /\ [][/\ Len(segregation_shares') = steps_run'
          /\ steps_run' \in {steps_run, steps_run + 1}
          /\ steps_run' = steps_run + 1 <=> steps' < steps
          /\ SubSeq(segregation_shares', 1, Len(segregation_shares))
                = segregation_shares]_vars

\* a second run call aborted with an error after its first step
C9_Witness ==
    /\ raised = "ZeroDivisionError"
    /\ steps_run = 2
    /\ Len(segregation_shares) = 2

\* C10: two models with the same configuration and the same random draws
\* have the same grids and shares after every step.  This relates two runs;
\* it is no property of one behaviour of this specification, in which every
\* action is a function of the state and of the cell drawn.

\* ---------------------------------------------------------------- C11
Two == <<2, 1>>

\* every other parameter of the configuration passes its check
ValidButThreshold ==
    /\ x_size > 1 /\ y_size > 1
    /\ x_size * y_size > n_agents
    /\ n_agents > 1
    /\ InUnitInterval(share_a)

\* C11 as stated: a model with stay_threshold = 2.0 is constructed, and run
\* on it does all its steps without an error.
C11_ThresholdTwoConstructsAndRuns ==
    (RatEq(stay_threshold, Two) /\ ValidButThreshold) =>
        /\ pc # "failed"
        /\ raised = "none"

\* C11, amended: a model with stay_threshold = 2.0 is never constructed.  Its
\* construction raises AssertionError at the threshold check, before any grid
\* exists, so that no step of run is ever made on it.
C11_ThresholdTwoIsRejected ==
    (RatEq(stay_threshold, Two) /\ pc # "check_inputs") =>
        /\ pc = "failed"
        /\ raised = "AssertionError"
        /\ grid = NoGrid
        /\ steps_run = 0
        /\ segregation_shares = <<>>

\* a construction that failed on the threshold 2.0 alone
C11_Witness ==
    /\ RatEq(stay_threshold, Two)
    /\ ValidButThreshold
    /\ pc = "failed"
    /\ raised = "AssertionError"

\* ---------------------------------------------------------------- C12
CellOf(g, c) == g[c[1]][c[2]]
StepCompletes == steps_run' = steps_run + 1

\* the step found its agent content: the grid is as it was
StayEffect ==
    /\ pc = "run"
    /\ \E pos \in Occupied(grid) :
         RatLeq(stay_threshold, get_neighbor_relation(grid, pos))
    /\ grid' = grid

\* the step moved its agent: two cells changed, no agent was overwritten
MoveEffect ==
    /\ pc = "move"
    /\ chosen_agent \in Occupied(grid)
    /\ RatLess(get_neighbor_relation(grid, chosen_agent), stay_threshold)
    /\ \E new_pos \in Cells :
         /\ CellOf(grid, new_pos) = "None"
         /\ CellOf(grid', new_pos) = CellOf(grid, chosen_agent)
         /\ CellOf(grid', chosen_agent) = "None"
         /\ \A c \in Cells \ {new_pos, chosen_agent} :
              CellOf(grid', c) = CellOf(grid, c)

\* C12: a step selects one occupied cell pos.  If its neighbour relation is
\* below stay_threshold, exactly two cells change: a cell that was empty gets
\* the type pos held and pos becomes empty, every other cell keeping its
\* content.  If the relation is at least stay_threshold, the grid after the
\* step is the grid before it.  Nothing but a completing step changes the
\* grid of a constructed model.
C12_StepMovesOneAgentOrNothing ==
    [][ /\ StepCompletes => (StayEffect \/ MoveEffect)
        /\ (Constructed /\ ~StepCompletes) => grid' = grid ]_vars

\* the second step changed the share, so it moved an agent
C12_Witness ==
    /\ steps_run = 2
    /\ ~RatEq(segregation_shares[1], segregation_shares[2])

\* ---------------------------------------------------------------- C13
\* __get_neighbor_positions on every position of every grid of a valid size:
\* the position asked about is chosen_agent, and a look at one of the
\* neighbours the function returned makes that neighbour the next position.
NeighborInit ==
    /\ x_size \in 2 .. MaxGrid
    /\ y_size \in 2 .. MaxGrid
    /\ chosen_agent \in (0 .. (MaxGrid - 1)) \X (0 .. (MaxGrid - 1))
    /\ chosen_agent[1] < x_size
    /\ chosen_agent[2] < y_size
    /\ n_agents = 2
    /\ share_a = Zero
    /\ stay_threshold = Zero
    /\ grid = NoGrid
    /\ segregation_shares = <<>>
    /\ steps_run = 0
    /\ pc = "neighbors"
    /\ placed = 0
    /\ equals = NoValue
    /\ steps = 0
    /\ print_at_end = TRUE
    /\ print_every = 0
    /\ rendered = "none"
    /\ raised = "none"

NeighborWalk ==
    /\ pc = "neighbors"
    /\ LET neighbors == get_neighbor_positions(chosen_agent)
       IN  \E k \in 1 .. Len(neighbors) : chosen_agent' = neighbors[k]
    /\ UNCHANGED <<config, grid, segregation_shares, steps_run, pc, placed,
                   equals, locals, rendered, raised>>

NeighborSpec == NeighborInit /\ [][NeighborWalk]_vars

Offsets == (-1 .. 1) \X (-1 .. 1)
\* the in-bounds positions around p, p left out
Around(p) ==
    {q \in Cells : \E d \in Offsets :
        d # <<0, 0>> /\ q = <<p[1] + d[1], p[2] + d[2]>>}
IsCorner(p) == p[1] \in {0, x_size - 1} /\ p[2] \in {0, y_size - 1}
IsInterior(p) ==
    /\ 0 < p[1] /\ p[1] < x_size - 1
    /\ 0 < p[2] /\ p[2] < y_size - 1

\* C13: neighbor_positions((x, y)) returns exactly the in-bounds positions
\* (x+i, y+j) with i, j in {-1, 0, 1} and (i, j) # (0, 0), each once: 3 of
\* them at a corner, 8 in the interior, between 3 and 8 anywhere; (x, y) is
\* never one of them and none comes from the opposite edge.
C13_NeighborsAreTheCellsAround ==
    pc = "neighbors" =>
        LET neighbors == get_neighbor_positions(chosen_agent)
            returned == {neighbors[k] : k \in 1 .. Len(neighbors)}
        IN  /\ returned = Around(chosen_agent)
            /\ Len(neighbors) = Cardinality(returned)
            /\ 3 <= Len(neighbors) /\ Len(neighbors) <= 8
            /\ IsCorner(chosen_agent) => Len(neighbors) = 3
            /\ IsInterior(chosen_agent) => Len(neighbors) = 8
            /\ chosen_agent \notin returned
            /\ \A q \in returned :
                 /\ q[1] - chosen_agent[1] \in -1 .. 1
                 /\ q[2] - chosen_agent[2] \in -1 .. 1

\* an interior position, with its eight neighbours
C13_Witness ==
    /\ pc = "neighbors"
    /\ IsInterior(chosen_agent)
    /\ Len(get_neighbor_positions(chosen_agent)) = 8

\* ---------------------------------------------------------------- C14
\* __get_neighbor_relation on every position of every grid, whatever it
\* holds: the call is the one __run_one_step makes, its result is equals.
RelationInit ==
    /\ \E grid_size \in RelationGridSizes :
         x_size = grid_size[1] /\ y_size = grid_size[2]
    /\ grid \in [Xs -> [Ys -> CellValues]]
    /\ chosen_agent \in Cells
    /\ n_agents = 2
    /\ share_a = Zero
    /\ stay_threshold = Zero
    /\ segregation_shares = <<>>
    /\ steps_run = 0
    /\ pc = "relation"
    /\ placed = 0
    /\ equals = NoValue
    /\ steps = 0
    /\ print_at_end = TRUE
    /\ print_every = 0
    /\ rendered = "none"
    /\ raised = "none"

Relation ==
    /\ pc = "relation"
    /\ equals' = get_neighbor_relation(grid, chosen_agent)
    /\ pc' = "returned"
    /\ UNCHANGED <<config, grid, segregation_shares, steps_run, placed,
                   chosen_agent, locals, rendered, raised>>

RelationSpec == RelationInit /\ [][Relation]_vars

\* the neighbours of p that hold what p holds, and those that hold the other
\* type
Like(g, p) ==
    Cardinality({q \in Around(p) : CellOf(g, q) = CellOf(g, p)})
Unlike(g, p) ==
    Cardinality({q \in Around(p) : CellOf(g, q) \notin {CellOf(g, p), "None"}})

CountOf(g, t) == Cardinality({c \in Cells : CellOf(g, c) = t})

\* one agent was put into a cell that was empty, nothing else changed
PlacedIntoEmpty ==
    \E c \in Cells :
        /\ CellOf(grid, c) = "None"
        /\ CellOf(grid', c) \in {"A", "B"}
        /\ \A d \in Cells \ {c} : CellOf(grid', d) = CellOf(grid, d)

Content(g) ==
    {c \in Cells : /\ CellOf(g, c) \in {"A", "B"}
                   /\ ~RatLess(get_neighbor_relation(g, c), stay_threshold)}

C18_StepKeepsEachPopulation ==
    [][Constructed =>
         /\ CountOf(grid', "A") = CountOf(grid, "A")
         /\ CountOf(grid', "B") = CountOf(grid, "B")]_vars

\* two steps on, the second a move that raised the share: still 1 A and 3 B
C18_Witness ==
    /\ steps_run = 2
    /\ RatLess(segregation_shares[1], segregation_shares[2])
    /\ n_agents = 3
    /\ CountOf(grid, "A") = 1
    /\ CountOf(grid, "B") = 3

\* ---------------------------------------------------------------- C19
\* every agent of the grid has a relation of at least stay_threshold
AllContent ==
    \A c \in Occupied(grid) :
        RatLeq(stay_threshold, get_neighbor_relation(grid, c))

\* C19: once every occupied cell has a neighbour relation of at least
\* stay_threshold, no later step changes the grid, and every share recorded
\* from then on is the number of occupied cells over n_agents.  A transition
\* from such a state keeps the grid and the configuration, hence leads to
\* such a state again.
C19_FixedPointStays ==
    [][(Constructed /\ AllContent) =>
         /\ grid' = grid
         /\ UNCHANGED config
         /\ Constructed'
         /\ StepCompletes =>
              segregation_shares'[Len(segregation_shares')]
                = <<Cardinality(Occupied(grid)), n_agents>>]_vars

\* a second step made at a fixed point that asks for a relation of 1.0: three
\* agents, none next to the other type, and a share of 3/2 both times
C19_Witness ==
    /\ Constructed
    /\ AllContent
    /\ stay_threshold = One
    /\ steps_run = 2
    /\ n_agents = 2
    /\ CountOf(grid, "A") = 1
    /\ CountOf(grid, "B") = 2
    /\ segregation_shares = <<(<<3, 2>>), (<<3, 2>>)>>

====
